---- MODULE Spec2Model ----
(***************************************************************************)
(* A model of the BytePusher virtual machine of src/src/main.js: the       *)
(* memory accessors of the BytePusher object, its cpuLoop, the keyboard    *)
(* state, the screen decoder and the requestAnimationFrame scheduler.      *)
(*                                                                         *)
(* Memory is a DataView over an ArrayBuffer of 0x1000008 bytes.  It is     *)
(* kept as a record [byteLength, bytes] where bytes maps exactly the       *)
(* addresses that hold a non-zero byte to that byte; every other address   *)
(* below byteLength holds zero (ArrayBuffers are zero-filled).  The        *)
(* representation is canonical: two equal memories are equal records.      *)
(*                                                                         *)
(* Time is counted in units of 1/fps millisecond, so that the frame        *)
(* duration 1000/fps ms is the whole number 1000 and the remainder         *)
(* delta % frameDuration is exact.                                         *)
(***************************************************************************)
EXTENDS Integers, Sequences, FiniteSets, TLC

VARIABLES
    mem,            \* BytePusher.mem
    keyState,       \* Keyboard.keyState
    buffer,         \* Screen.buffer, the decoded image
    running,        \* the module-level flag running
    lastFrameTime,  \* main's lastFrameTime, in units of 1/fps ms
    rafQueue,       \* number of loop callbacks requested for the next animation frame
    batch,          \* number of loop callbacks the current animation frame has yet to call
    demo,           \* loadDemo's progress: "fetching", "loaded" or "failed"
    now,            \* timestamp of the latest animation frame, -1 before the first
    at,             \* position of the running handler, "idle" between handlers
    ret,            \* who called cpuLoop: "loop" or "call"
    pc,             \* cpuLoop's local pc
    i,              \* cpuLoop's local i
    thrown,         \* the exception that ended the latest loop callback or call,
                    \* "none" again once the user clicks or the demo is loaded
    did,            \* what the latest loop callback has executed so far
    ticks,          \* history: <<time, whether a frame was due>> of the loop callbacks
    held,           \* history: the keys whose latest event is a keydown
    call            \* the latest direct call of a BytePusher method, and its result

vars == <<mem, keyState, buffer, running, lastFrameTime, rafQueue, batch, demo,
          now, at, ret, pc, i, thrown, did, ticks, held, call>>

\* the scheduler's part of the state
sched == <<running, lastFrameTime, rafQueue, batch, now, ticks>>

-----------------------------------------------------------------------------
(* Program constants *)

MemSize == 16777224       \* 0x1000008
AddrMax == 16777215       \* 0xFFFFFF
Iterations == 65536
fps == 60

NoError == "none"
OutOfBounds == "Address out of bounds"
RangeError == "RangeError"
TooLarge == "Image is too large to fit in Memory"

-----------------------------------------------------------------------------
(* DataView over a zero-filled ArrayBuffer *)

NoBytes == [a \in {} |-> 0]

\* new DataView(new ArrayBuffer(0x1000008))
NewMemory == [byteLength |-> MemSize, bytes |-> NoBytes]

Byte(m, a) == IF a \in DOMAIN m.bytes THEN m.bytes[a] ELSE 0

Store(bytes, a, v) ==
    IF v = 0
    THEN [x \in DOMAIN bytes \ {a} |-> bytes[x]]
    ELSE [x \in DOMAIN bytes \cup {a} |-> IF x = a THEN v ELSE bytes[x]]

\* DataView accessors throw a RangeError when the access leaves the buffer
InView(m, a, n) == a >= 0 /\ a + n <= m.byteLength

Value(v) == [err |-> NoError, val |-> v]
Throw(e) == [err |-> e, val |-> 0]
Kept(m) == [err |-> NoError, mem |-> m]
Failed(e, m) == [err |-> e, mem |-> m]

getUint8(m, a) ==
    IF InView(m, a, 1) THEN Value(Byte(m, a)) ELSE Throw(RangeError)

\* the four bytes of the big-endian word, most significant first
getUint32(m, a) ==
    IF InView(m, a, 4)
    THEN [err |-> NoError,
          val |-> <<Byte(m, a), Byte(m, a + 1), Byte(m, a + 2), Byte(m, a + 3)>>]
    ELSE [err |-> RangeError, val |-> <<0, 0, 0, 0>>]

setUint8(m, a, v) ==
    IF InView(m, a, 1)
    THEN Kept([m EXCEPT !.bytes = Store(m.bytes, a, v % 256)])
    ELSE Failed(RangeError, m)

setUint16(m, a, v) ==
    IF InView(m, a, 2)
    THEN Kept([m EXCEPT !.bytes =
                 Store(Store(m.bytes, a, (v \div 256) % 256), a + 1, v % 256)])
    ELSE Failed(RangeError, m)

\* w >> 8 for a 32-bit word w given by its bytes: >> takes its left operand
\* as a signed 32-bit integer (bit 31 is the sign) and shifts arithmetically,
\* which drops the low byte and keeps the sign.
ShiftRight8(w) ==
    (IF w[1] >= 128 THEN w[1] - 256 ELSE w[1]) * 65536 + w[2] * 256 + w[3]

-----------------------------------------------------------------------------
(* The BytePusher object *)

readUint24(m, addr) ==
    IF addr > AddrMax
    THEN Throw(OutOfBounds)
    ELSE LET w == getUint32(m, addr)
         IN  IF w.err # NoError THEN Throw(w.err) ELSE Value(ShiftRight8(w.val))

\* a writeUint16 that stores the low byte first: setUint16(src, value, true)
writeUint16LittleEndian(m, src, value) ==
    IF src > AddrMax
    THEN Failed(OutOfBounds, m)
    ELSE setUint16(m, src, (value % 256) * 256 + ((value \div 256) % 256))

writeUint16(m, src, value) ==
    IF src > AddrMax THEN Failed(OutOfBounds, m) ELSE setUint16(m, src, value)

\* a readByte without its bounds check
readByteUnchecked(m, addr) == getUint8(m, addr)

readByte(m, addr) ==
    IF addr > AddrMax THEN Throw(OutOfBounds) ELSE getUint8(m, addr)

\* the arguments of setUint8 are evaluated left to right before it runs
writeByte(m, src, dest) ==
    IF src > AddrMax \/ dest > AddrMax
    THEN Failed(OutOfBounds, m)
    ELSE LET d == readUint24(m, dest)
         IN  IF d.err # NoError THEN Failed(d.err, m)
             ELSE LET s == readUint24(m, src)
                  IN  IF s.err # NoError THEN Failed(s.err, m)
                      ELSE LET b == getUint8(m, s.val)
                           IN  IF b.err # NoError THEN Failed(b.err, m)
                               ELSE setUint8(m, d.val, b.val)

\* a setMemory that rejects an image of exactly 0x1000008 bytes
setMemoryRejectsFull(m, image) ==
    IF image.byteLength >= MemSize
    THEN Failed(TooLarge, m)
    ELSE Kept([byteLength |-> MemSize, bytes |-> image.bytes])

\* an image is [byteLength, bytes] like a memory; transfer(0x1000008) keeps
\* its bytes and zero-fills up to the new length
setMemory(m, image) ==
    IF image.byteLength > MemSize
    THEN Failed(TooLarge, m)
    ELSE Kept([byteLength |-> MemSize, bytes |-> image.bytes])

getFramebufferStartAddress(m) == readByte(m, 5).val * 65536    \* << 16

-----------------------------------------------------------------------------
(* cpuLoop, one step per evaluation of the for statement *)

\* let pc = this.readUint24(2)
cpuLoopStart(m) == readUint24(m, 2)

\* the test i < 65536 of the for statement
cpuLoopTest(n) == n < Iterations

\* a cpuLoop body that reads the jump before it copies
cpuLoopBodyJumpFirst(m, p) ==
    LET r == readUint24(m, p + 6)
        w == writeByte(m, p, p + 3)
    IN  IF w.err # NoError
        THEN [err |-> w.err, mem |-> m, pc |-> p]
        ELSE IF r.err # NoError
             THEN [err |-> r.err, mem |-> w.mem, pc |-> p]
             ELSE [err |-> NoError, mem |-> w.mem, pc |-> r.val]

\* the body of the for statement: the copy, then the jump read from the
\* memory the copy has left.  An exception leaves the memory as it is then.
cpuLoopBody(m, p) ==
    LET w == writeByte(m, p, p + 3)
    IN  IF w.err # NoError
        THEN [err |-> w.err, mem |-> m, pc |-> p]
        ELSE LET r == readUint24(w.mem, p + 6)
             IN  IF r.err # NoError
                 THEN [err |-> r.err, mem |-> w.mem, pc |-> p]
                 ELSE [err |-> NoError, mem |-> w.mem, pc |-> r.val]

\* where control goes when cpuLoop returns: line 179 of loop, or the caller
AfterCpuLoop == IF ret = "loop" THEN "updateBuffer" ELSE "idle"

CpuLoopEnter ==
    /\ at = "cpuLoop"
    /\ did' = [did EXCEPT !.cpuLoop = @ + 1]
    /\ LET r == cpuLoopStart(mem)
       IN  IF r.err # NoError
           THEN /\ at' = "idle"
                /\ thrown' = r.err
                /\ UNCHANGED <<pc, i>>
           ELSE /\ at' = "for"
                /\ pc' = r.val
                /\ i' = 0
                /\ UNCHANGED thrown
    /\ UNCHANGED <<mem, keyState, buffer, demo, ret, call, held, sched>>

CpuLoopIterate ==
    /\ at = "for"
    /\ cpuLoopTest(i)
    /\ LET b == cpuLoopBody(mem, pc)
       IN  /\ mem' = b.mem
           /\ IF b.err # NoError
              THEN /\ at' = "idle"
                   /\ thrown' = b.err
                   /\ UNCHANGED <<pc, i>>
              ELSE /\ pc' = b.pc
                   /\ i' = i + 1
                   /\ UNCHANGED <<at, thrown>>
    /\ UNCHANGED <<keyState, buffer, demo, ret, did, call, held, sched>>

CpuLoopReturn ==
    /\ at = "for"
    /\ ~cpuLoopTest(i)
    /\ at' = AfterCpuLoop
    /\ UNCHANGED <<mem, keyState, buffer, demo, ret, pc, i, thrown, did, call, held, sched>>

-----------------------------------------------------------------------------
(* Keyboard *)

keymap ==
    [k \in {"1", "2", "3", "4", "5", "6", "7", "8", "9", "a", "b", "c", "d", "e", "f"} |->
        CASE k = "1" -> 2     [] k = "2" -> 4     [] k = "3" -> 8
          [] k = "4" -> 16    [] k = "5" -> 32    [] k = "6" -> 64
          [] k = "7" -> 128   [] k = "8" -> 256   [] k = "9" -> 512
          [] k = "a" -> 1024  [] k = "b" -> 2048  [] k = "c" -> 4096
          [] k = "d" -> 8192  [] k = "e" -> 16384 [] k = "f" -> 32768]

RECURSIVE BitOr(_, _)
\* a | b for a, b >= 0
BitOr(a, b) ==
    IF a = 0 THEN b
    ELSE IF b = 0 THEN a
    ELSE (IF a % 2 = 1 \/ b % 2 = 1 THEN 1 ELSE 0) + 2 * BitOr(a \div 2, b \div 2)

RECURSIVE BitAndNot(_, _)
\* a & ~b for a, b >= 0
BitAndNot(a, b) ==
    IF a = 0 THEN 0
    ELSE (IF a % 2 = 1 /\ b % 2 = 0 THEN 1 ELSE 0) + 2 * BitAndNot(a \div 2, b \div 2)

\* the keydown listener
keydown(state, key) ==
    IF key \in DOMAIN keymap THEN BitOr(state, keymap[key]) ELSE state

\* a keyup listener that forgets the ~: this.keyState &= key
keyupAnd(state, key) ==
    IF key \in DOMAIN keymap
    THEN state - BitAndNot(state, keymap[key])
    ELSE state

\* the keyup listener
keyup(state, key) ==
    IF key \in DOMAIN keymap THEN BitAndNot(state, keymap[key]) ELSE state

-----------------------------------------------------------------------------
(* Screen *)

width == 256
height == 256

\* Screen.palette is kept as the function from the entries written so far to
\* their bytes <<r, g, b, a>>, as view.setUint32 stores them big-endian;
\* every other entry holds the zero of new Uint32Array(256)
setPalette(pal, n, rgba) == (n :> rgba) @@ pal

RECURSIVE paletteB(_, _, _, _)
\* lines 113-114: for (var b = 0; b <= 0xff; b += 0x33) view.setUint32(i++ *
\* 4, r << 24 | g << 16 | b << 8 | 0xff); st is [pal, i].  A store outside
\* the 256 entries would throw and end initPalette.
paletteB(st, r, g, b) ==
    IF b <= 255 /\ st.i < 256
    THEN paletteB([pal |-> setPalette(st.pal, st.i, <<r, g, b, 255>>), i |-> st.i + 1],
                  r, g, b + 51)
    ELSE st

RECURSIVE paletteG(_, _, _)
\* line 112: for (var g = 0; g <= 0xff; g += 0x33)
paletteG(st, r, g) ==
    IF g <= 255 /\ st.i < 256
    THEN paletteG(paletteB(st, r, g, 0), r, g + 51)
    ELSE st

RECURSIVE paletteR(_, _)
\* line 111: for (var r = 0; r <= 0xff; r += 0x33)
paletteR(st, r) ==
    IF r <= 255 /\ st.i < 256
    THEN paletteR(paletteG(st, r, 0), r + 51)
    ELSE st

RECURSIVE paletteBlack(_, _)
\* lines 118-120: for (let i = 216; i < 256; i++) view.setUint32(i++ * 4,
\* 0x000000ff): i is incremented in the body and again in the header
paletteBlack(pal, n) ==
    IF n < 256
    THEN paletteBlack(setPalette(pal, n, <<0, 0, 0, 255>>), (n + 1) + 1)
    ELSE pal

\* Screen.palette after initPalette
initPalette ==
    paletteBlack(paletteR([pal |-> [k \in {} |-> <<0, 0, 0, 0>>], i |-> 0], 0).pal, 216)

\* this.palette[k]
palette(k) == IF k \in DOMAIN initPalette THEN initPalette[k] ELSE <<0, 0, 0, 0>>

\* an image is [fill, pixels]: pixels maps the pixels that differ from fill
\* to their bytes.  new ImageData(256, 256) is transparent black.
BlankImage == [fill |-> <<0, 0, 0, 0>>, pixels |-> [p \in {} |-> <<0, 0, 0, 0>>]]

Pixel(img, p) == IF p \in DOMAIN img.pixels THEN img.pixels[p] ELSE img.fill

\* updateBuffer(new Uint8Array(mem.buffer, start)): pixel p becomes
\* palette[framebuffer[p]] for every p below width * height
updateBuffer(m, start) ==
    LET lit == {p \in {a - start : a \in DOMAIN m.bytes} :
                  /\ 0 <= p
                  /\ p < width * height
                  /\ palette(Byte(m, start + p)) # palette(0)}
    IN  [fill |-> palette(0), pixels |-> [p \in lit |-> palette(Byte(m, start + p))]]

-----------------------------------------------------------------------------
(* main: the scheduler.  Times are in units of 1/fps ms. *)

Ms(t) == t * fps

\* let frameDuration = 1000 / fps
frameDuration == Ms(1000) \div fps

\* a test against fps instead of the frame duration
frameDueFps(delta) == delta >= fps

\* delta >= frameDuration
frameDue(delta) == delta >= frameDuration

\* lastFrameTime = time, without the remainder
frameTimeNoPhase(time, delta) == time

\* time - (delta % frameDuration)
frameTime(time, delta) == time - (delta % frameDuration)

\* loop without line 171: no callback is requested
requestNone(queue, on) == queue

\* running && requestAnimationFrame(loop)
request(queue, on) == IF on THEN queue + 1 ELSE queue

NoFrame == [due |-> FALSE, writeUint16 |-> 0, cpuLoop |-> 0, updateBuffer |-> 0]

\* The browser starts an animation frame at timestamp time: it will call
\* every callback requested so far, each with that timestamp.
AnimationFrame(time) ==
    /\ at = "idle"
    /\ batch = 0
    /\ rafQueue > 0
    /\ time > now
    /\ now' = time
    /\ batch' = rafQueue
    /\ rafQueue' = 0
    /\ UNCHANGED <<mem, keyState, buffer, running, lastFrameTime, demo,
                   at, ret, pc, i, thrown, did, ticks, held, call>>

\* loop(time) without line 175: a due frame runs and lastFrameTime stays
LoopCallKeepsTime ==
    /\ at = "idle"
    /\ batch > 0
    /\ batch' = batch - 1
    /\ rafQueue' = request(rafQueue, running)
    /\ thrown' = NoError
    /\ LET delta == now - lastFrameTime
       IN  IF frameDue(delta)
           THEN /\ at' = "writeUint16"
                /\ did' = [NoFrame EXCEPT !.due = TRUE]
           ELSE /\ did' = NoFrame
                /\ UNCHANGED at
    /\ UNCHANGED <<mem, keyState, buffer, running, lastFrameTime, demo, now,
                   ret, pc, i, held, call>>

\* loop(time), lines 171-175: request the next callback, then decide
\* whether a frame is due.  The history ticks is left to the specification.
LoopCall ==
    /\ at = "idle"
    /\ batch > 0
    /\ batch' = batch - 1
    /\ rafQueue' = request(rafQueue, running)
    /\ thrown' = NoError
    /\ LET delta == now - lastFrameTime
       IN  IF frameDue(delta)
           THEN /\ lastFrameTime' = frameTime(now, delta)
                /\ at' = "writeUint16"
                /\ did' = [NoFrame EXCEPT !.due = TRUE]
           ELSE /\ did' = NoFrame
                /\ UNCHANGED <<lastFrameTime, at>>
    /\ UNCHANGED <<mem, keyState, buffer, running, demo, now, ret, pc, i, held, call>>

\* lines 178 and 179 swapped: the decoder runs before the burst
LoopWriteUint16DecodeFirst ==
    /\ at = "writeUint16"
    /\ did' = [did EXCEPT !.writeUint16 = @ + 1]
    /\ mem' = writeUint16(mem, 0, keyState).mem
    /\ at' = "updateBuffer"
    /\ UNCHANGED <<keyState, buffer, demo, ret, pc, i, thrown, call, held, sched>>

\* line 177: BytePusher.writeUint16(0, Keyboard.keyState), then line 178
\* calls cpuLoop
LoopWriteUint16 ==
    /\ at = "writeUint16"
    /\ did' = [did EXCEPT !.writeUint16 = @ + 1]
    /\ LET w == writeUint16(mem, 0, keyState)
       IN  /\ mem' = w.mem
           /\ IF w.err # NoError
              THEN /\ at' = "idle"
                   /\ thrown' = w.err
                   /\ UNCHANGED ret
              ELSE /\ at' = "cpuLoop"
                   /\ ret' = "loop"
                   /\ UNCHANGED thrown
    /\ UNCHANGED <<keyState, buffer, demo, pc, i, call, held, sched>>

\* line 181, "// TODO: update audio device": the samples a frame hands to
\* an audio device, in 1/128ths; loop has no statement that reads any
audioSamples(m) == << >>

\* lines 179-180: decode the framebuffer and draw it; loop returns
LoopUpdateBuffer ==
    /\ at = "updateBuffer"
    /\ did' = [did EXCEPT !.updateBuffer = @ + 1]
    /\ buffer' = updateBuffer(mem, getFramebufferStartAddress(mem))
    /\ at' = "idle"
    /\ UNCHANGED <<mem, keyState, demo, ret, pc, i, thrown, call, held, sched>>

\* the click listener of toggle_state
MaxQueue == 2

Click ==
    /\ at = "idle"
    /\ batch = 0
    /\ rafQueue + (IF running THEN 0 ELSE 1) <= MaxQueue
    /\ running' = ~running
    /\ rafQueue' = request(rafQueue, ~running)
    /\ thrown' = NoError
    /\ UNCHANGED <<mem, keyState, buffer, lastFrameTime, batch, demo, now,
                   at, ret, pc, i, did, ticks, held, call>>

\* the keydown and keyup listeners; the history held is left to the
\* specification
KeyDown(key) ==
    /\ at = "idle"
    /\ batch = 0
    /\ keyState' = keydown(keyState, key)
    /\ UNCHANGED <<mem, buffer, demo, at, ret, pc, i, thrown, did, call, sched>>

KeyUp(key) ==
    /\ at = "idle"
    /\ batch = 0
    /\ keyState' = keyup(keyState, key)
    /\ UNCHANGED <<mem, buffer, demo, at, ret, pc, i, thrown, did, call, sched>>

\* loadDemo once fetch has answered with the image: setMemory, with its
\* exception caught, and then the callback given to then()
LoadDemo(image) ==
    /\ at = "idle"
    /\ batch = 0
    /\ demo = "fetching"
    /\ rafQueue + (IF running THEN 1 ELSE 0) <= MaxQueue
    /\ LET r == setMemory(mem, image)
       IN  /\ mem' = r.mem
           /\ demo' = IF r.err = NoError THEN "loaded" ELSE "failed"
    /\ rafQueue' = request(rafQueue, running)
    /\ thrown' = NoError
    /\ UNCHANGED <<keyState, buffer, running, lastFrameTime, batch, now,
                   at, ret, pc, i, did, ticks, held, call>>

-----------------------------------------------------------------------------
(* Program images *)

Image(n, bytes) == [byteLength |-> n, bytes |-> bytes]

\* the empty image: all of memory is zero, the instruction at 0 copies
\* byte 0 onto itself and jumps to 0
ProgZero == Image(0, NoBytes)

\* pc starts at 0x10.  0x10: copy [0x40] (= 0x30) to 0x18, the low byte of
\* its own jump field (0x20 before the copy), so the jump goes to 0x30.
\* 0x30: copy [0x41] (= 0x20) to address 4, the low byte of the start pc,
\* and jump to 0x30.
ProgJump ==
    Image(66, (4 :> 16) @@
              (18 :> 64) @@ (21 :> 24) @@ (24 :> 32) @@
              (50 :> 65) @@ (53 :> 4) @@ (56 :> 48) @@
              (64 :> 48) @@ (65 :> 32))

\* pc starts at 0x10.  0x10: copy [0] to 0 and jump to 0x800000
ProgFault == Image(23, (4 :> 16) @@ (22 :> 128))

Programs == {ProgZero, ProgJump, ProgFault}

-----------------------------------------------------------------------------
(* The state main() leaves: nothing loaded, nothing running *)

NoCall == [op |-> "none", a |-> 0, b |-> 0, image |-> ProgZero,
           err |-> NoError, val |-> 0, old |-> NewMemory, n |-> 0]

Booted(m) ==
    /\ mem = m
    /\ keyState = 0
    /\ buffer = BlankImage
    /\ running = FALSE
    /\ lastFrameTime = 0
    /\ rafQueue = 0
    /\ batch = 0
    /\ demo = "fetching"
    /\ now = -1
    /\ at = "idle"
    /\ ret = "loop"
    /\ pc = 0
    /\ i = 0
    /\ thrown = NoError
    /\ did = NoFrame
    /\ ticks = <<>>
    /\ held = {}
    /\ call = NoCall

-----------------------------------------------------------------------------
(* Spec: the page, from main() on *)

\* the image demos/keyboard.bp may turn out to be
TooLargeImage == Image(MemSize + 1, NoBytes)
DemoImages == {ProgZero, TooLargeImage}

\* e.key of the key events: a mapped key and one the keymap does not hold
Keys == {"f", "z"}

\* the timestamps animation frames may carry
Times == {Ms(8), Ms(24), Ms(80)}

Init == Booted(NewMemory)

Next ==
    \/ \E image \in DemoImages : LoadDemo(image)
    \/ Click
    \/ \E key \in Keys : KeyDown(key) /\ UNCHANGED held
    \/ \E key \in Keys : KeyUp(key) /\ UNCHANGED held
    \/ \E time \in Times : AnimationFrame(time)
    \/ LoopCall /\ UNCHANGED ticks
    \/ LoopWriteUint16
    \/ CpuLoopEnter
    \/ CpuLoopIterate
    \/ CpuLoopReturn
    \/ LoopUpdateBuffer

Spec == Init /\ [][Next]_vars

-----------------------------------------------------------------------------
(* SpecCpu: cpuLoop called on a memory that holds a program *)

MaxBursts == 2

CallCpuLoop ==
    /\ at = "idle"
    /\ call.n < MaxBursts
    /\ at' = "cpuLoop"
    /\ ret' = "call"
    /\ thrown' = NoError
    /\ call' = [NoCall EXCEPT !.op = "cpuLoop", !.old = mem, !.n = call.n + 1]
    /\ UNCHANGED <<mem, keyState, buffer, demo, pc, i, did, held, sched>>

InitCpu == \E p \in Programs : Booted(setMemory(NewMemory, p).mem)

NextCpu == CallCpuLoop \/ CpuLoopEnter \/ CpuLoopIterate \/ CpuLoopReturn

SpecCpu == InitCpu /\ [][NextCpu]_vars

-----------------------------------------------------------------------------
(* SpecTicks: the page once the demo is loaded and the user has clicked    *)
(* start, driven by animation frames alone, with the history of callbacks  *)

\* the timestamps animation frames may carry, in ms
TickTimes == {0, 8, 16, 24, 33}

InitTicks ==
    /\ mem = setMemory(NewMemory, ProgZero).mem
    /\ keyState = 0
    /\ buffer = BlankImage
    /\ running = TRUE
    /\ lastFrameTime = 0
    /\ rafQueue = 1
    /\ batch = 0
    /\ demo = "loaded"
    /\ now = -1
    /\ at = "idle"
    /\ ret = "loop"
    /\ pc = 0
    /\ i = 0
    /\ thrown = NoError
    /\ did = NoFrame
    /\ ticks = <<>>
    /\ held = {}
    /\ call = NoCall

NextTicks ==
    \/ \E t \in TickTimes : AnimationFrame(Ms(t))
    \/ LoopCall /\ ticks' = Append(ticks, <<now, did'.due>>)
    \/ LoopWriteUint16
    \/ CpuLoopEnter
    \/ CpuLoopIterate
    \/ CpuLoopReturn
    \/ LoopUpdateBuffer

SpecTicks == InitTicks /\ [][NextTicks]_vars

-----------------------------------------------------------------------------
(* SpecRate: callbacks at 10, 24, 34 and 100 ms, in every increasing
   selection, with one or with two callbacks pending (two callbacks of one
   animation frame get the same timestamp). *)

RateTimes == {10, 24, 34, 100}

InitRate ==
    /\ mem = setMemory(NewMemory, ProgZero).mem
    /\ keyState = 0
    /\ buffer = BlankImage
    /\ running = TRUE
    /\ lastFrameTime = 0
    /\ \E q \in {1, 2} : rafQueue = q
    /\ batch = 0
    /\ demo = "loaded"
    /\ now = -1
    /\ at = "idle"
    /\ ret = "loop"
    /\ pc = 0
    /\ i = 0
    /\ thrown = NoError
    /\ did = NoFrame
    /\ ticks = <<>>
    /\ held = {}
    /\ call = NoCall

NextRate ==
    \/ \E t \in RateTimes : AnimationFrame(Ms(t))
    \/ LoopCall /\ ticks' = Append(ticks, <<now, did'.due>>)
    \/ LoopWriteUint16
    \/ CpuLoopEnter
    \/ CpuLoopIterate
    \/ CpuLoopReturn
    \/ LoopUpdateBuffer

SpecRate == InitRate /\ [][NextRate]_vars

-----------------------------------------------------------------------------
(* SpecLive: the loop left to run for ever, with nobody clicking.  The
   browser's timestamps grow without bound, half a frame duration or one
   and a half at a time.  loop reads time and lastFrameTime only in
   time - lastFrameTime (line 173) and writes lastFrameTime as time minus
   a remainder (line 175), so moving the origin of both leaves every
   decision as it is: each animation frame takes the origin to
   lastFrameTime, which keeps the timestamps in a finite range.  A pending
   callback is eventually called and a handler runs to completion, which
   is the weak fairness of each step. *)

LiveSteps == {frameDuration \div 2, (3 * frameDuration) \div 2}

AnimationFrameAfter(step) ==
    /\ at = "idle"
    /\ batch = 0
    /\ rafQueue > 0
    /\ step > 0
    /\ now' = (now - lastFrameTime) + step
    /\ lastFrameTime' = 0
    /\ batch' = rafQueue
    /\ rafQueue' = 0
    /\ UNCHANGED <<mem, keyState, buffer, running, demo,
                   at, ret, pc, i, thrown, did, ticks, held, call>>

InitLive ==
    /\ mem = setMemory(NewMemory, ProgZero).mem
    /\ keyState = 0
    /\ buffer = BlankImage
    /\ running = TRUE
    /\ lastFrameTime = 0
    /\ rafQueue = 1
    /\ batch = 0
    /\ demo = "loaded"
    /\ now = 0
    /\ at = "idle"
    /\ ret = "loop"
    /\ pc = 0
    /\ i = 0
    /\ thrown = NoError
    /\ did = NoFrame
    /\ ticks = <<>>
    /\ held = {}
    /\ call = NoCall

NextLive ==
    \/ \E step \in LiveSteps : AnimationFrameAfter(step)
    \/ LoopCall /\ UNCHANGED ticks
    \/ LoopWriteUint16
    \/ CpuLoopEnter
    \/ CpuLoopIterate
    \/ CpuLoopReturn
    \/ LoopUpdateBuffer

\* An iteration of cpuLoop as the rest of the program sees it: it is counted
\* or it throws.  At "for" with i < 65536 CpuLoopIterate is enabled, and it
\* is the one step of NextLive there, so weak fairness of this action on
\* <<at, i>> is the weak fairness of CpuLoopIterate.
CpuLoopIterated ==
    /\ at = "for"
    /\ cpuLoopTest(i)
    /\ \/ i' = i + 1 /\ at' = at
       \/ i' = i /\ at' = "idle"

SpecLive ==
    /\ InitLive
    /\ [][NextLive]_vars
    /\ WF_vars(\E step \in LiveSteps : AnimationFrameAfter(step))
    /\ WF_vars(LoopCall /\ UNCHANGED ticks)
    /\ WF_vars(LoopWriteUint16)
    /\ WF_vars(CpuLoopEnter)
    /\ WF_<<at, i>>(CpuLoopIterated)
    /\ WF_vars(CpuLoopReturn)
    /\ WF_vars(LoopUpdateBuffer)

-----------------------------------------------------------------------------
(* SpecApi: the methods of the BytePusher object called one after another  *)
(* on a memory that holds an image                                         *)

MaxCalls == 2

\* the three bytes of v stored big-endian at address a
Put3(bytes, a, v) ==
    Store(Store(Store(bytes, a, v \div 65536), a + 1, (v \div 256) % 256), a + 2, v % 256)

\* A full-size image with a source pointer s at 0, a destination pointer d
\* at 3 and the byte low at 6; 0x5A at address s and 0x3C at address d
\* where the pointers leave room; bytes beyond 0xFFFFFF
PointerImage(s, d, low) ==
    Image(MemSize,
          Put3(Put3(Store(Store(Store(Store(Store(NoBytes,
                        AddrMax + 2, 6), AddrMax + 3, 238), s, 90), d, 60), 6, low),
                    0, s), 3, d))

\* pointers with the top bit clear and set
SrcPointers == {0, 64, 8388607, 8388608, AddrMax}
DstPointers == {4, 80, 8388688, AddrMax}
LowBytes == {0, 255}

PointerImages ==
    {PointerImage(s, d, low) : s \in SrcPointers, d \in DstPointers, low \in LowBytes}

\* raw addresses given to the methods, the last one out of bounds
RawAddresses == {0, 3, AddrMax, AddrMax + 1}

\* images given to setMemory: empty, short, exactly full, one byte too long
LastByteImage == Image(MemSize, (0 :> 1) @@ (MemSize - 1 :> 171))
LoadImages == {ProgZero, ProgJump, LastByteImage, TooLargeImage}

Called(op, a, b, image, err, val) ==
    /\ call' = [op |-> op, a |-> a, b |-> b, image |-> image, err |-> err,
                val |-> val, old |-> mem, n |-> call.n + 1]
    /\ thrown' = err
    /\ UNCHANGED <<keyState, buffer, demo, at, ret, pc, i, did, held, sched>>

CallReadUint24(addr) ==
    /\ at = "idle"
    /\ call.n < MaxCalls
    /\ LET r == readUint24(mem, addr)
       IN  Called("readUint24", addr, 0, ProgZero, r.err, r.val)
    /\ UNCHANGED mem

CallWriteByte(src, dest) ==
    /\ at = "idle"
    /\ call.n < MaxCalls
    /\ LET r == writeByte(mem, src, dest)
       IN  /\ mem' = r.mem
           /\ Called("writeByte", src, dest, ProgZero, r.err, 0)

CallSetMemory(image) ==
    /\ at = "idle"
    /\ call.n < MaxCalls
    /\ LET r == setMemory(mem, image)
       IN  /\ mem' = r.mem
           /\ Called("setMemory", 0, 0, image, r.err, 0)

InitApi ==
    \E image \in PointerImages \cup {ProgZero} : Booted(setMemory(NewMemory, image).mem)

NextApi ==
    \/ \E addr \in RawAddresses : CallReadUint24(addr)
    \/ \E src \in RawAddresses, dest \in RawAddresses : CallWriteByte(src, dest)
    \/ \E image \in LoadImages : CallSetMemory(image)

SpecApi == InitApi /\ [][NextApi]_vars

-----------------------------------------------------------------------------
(* SpecScreen: line 179 of loop, the decoder called on a memory that holds *)
(* a framebuffer                                                           *)

\* a full-size image whose byte 5 is page and whose framebuffer, at
\* page << 16, holds index k at pixel p and zero elsewhere
DotImage(page, p, k) ==
    Image(MemSize, Store(Store(NoBytes, page * 65536 + p, k), 5, page))

\* the same with index k > 0 at every pixel, for a page > 0
FillImage(page, k) ==
    Image(MemSize,
          (5 :> page) @@ [a \in (page * 65536)..(page * 65536 + width * height - 1) |-> k])

Pages == {0, 1, 128, 255}
Positions == {0, 255, 256, 65535}
Indexes == {1, 215, 216, 217, 220, 255}
FillPages == {1, 255}
FillIndexes == {217, 220}

\* Screen.updateBuffer(new Uint8Array(BytePusher.mem.buffer,
\* BytePusher.getFramebufferStartAddress()))
CallUpdateBuffer ==
    /\ at = "idle"
    /\ call.n < MaxCalls
    /\ buffer' = updateBuffer(mem, getFramebufferStartAddress(mem))
    /\ call' = [NoCall EXCEPT !.op = "updateBuffer", !.old = mem, !.n = call.n + 1]
    /\ UNCHANGED <<mem, keyState, demo, at, ret, pc, i, thrown, did, held, sched>>

InitScreen ==
    \/ \E page \in Pages, p \in Positions, k \in Indexes :
           Booted(setMemory(NewMemory, DotImage(page, p, k)).mem)
    \/ \E page \in FillPages, k \in FillIndexes :
           Booted(setMemory(NewMemory, FillImage(page, k)).mem)

NextScreen == CallUpdateBuffer

SpecScreen == InitScreen /\ [][NextScreen]_vars

-----------------------------------------------------------------------------
(* SpecKeys: key events around one frame of the page, with the history of  *)
(* the keys held                                                           *)

\* e.key of the key events: three mapped keys and one the keymap does not
\* hold
KeyNames == {"0", "1", "a", "f"}

InitKeys == InitTicks

NextKeys ==
    \/ \E key \in KeyNames : KeyDown(key) /\ held' = held \cup {key}
    \/ \E key \in KeyNames : KeyUp(key) /\ held' = held \ {key}
    \/ AnimationFrame(Ms(24))
    \/ LoopCall /\ UNCHANGED ticks
    \/ LoopWriteUint16
    \/ CpuLoopEnter
    \/ CpuLoopIterate
    \/ CpuLoopReturn
    \/ LoopUpdateBuffer

SpecKeys == InitKeys /\ [][NextKeys]_vars

-----------------------------------------------------------------------------
(* SpecWord: readByte, readUint24 and writeUint16 called one after another *)
(* at addresses around the ends of the address space and of the buffer     *)

WordAddresses == {0, 1, AddrMax - 1, AddrMax, AddrMax + 1, MemSize - 2, MemSize}
WordValues == {0, 1, 255, 256, 43981, 65535}

CallReadByte(addr) ==
    /\ at = "idle"
    /\ call.n < MaxCalls
    /\ LET r == readByte(mem, addr)
       IN  Called("readByte", addr, 0, ProgZero, r.err, r.val)
    /\ UNCHANGED mem

CallWriteUint16(src, value) ==
    /\ at = "idle"
    /\ call.n < MaxCalls
    /\ LET r == writeUint16(mem, src, value)
       IN  /\ mem' = r.mem
           /\ Called("writeUint16", src, value, ProgZero, r.err, 0)

InitWord ==
    \E image \in {ProgZero, LastByteImage, PointerImage(AddrMax - 1, AddrMax, 255)} :
        Booted(setMemory(NewMemory, image).mem)

NextWord ==
    \/ \E addr \in WordAddresses : CallReadByte(addr)
    \/ \E addr \in WordAddresses : CallReadUint24(addr)
    \/ \E src \in WordAddresses, value \in WordValues : CallWriteUint16(src, value)

SpecWord == InitWord /\ [][NextWord]_vars

-----------------------------------------------------------------------------
(* SpecLoop: cpuLoop called on a memory that holds a self-loop program     *)

\* the start pc P at 2; at P an instruction that copies the byte at A onto
\* itself and jumps to P; 0x5A at A unless A lies in the program
SelfLoop(P, A) ==
    Image(MemSize,
          Put3(Put3(Put3(Put3(Store(NoBytes, A, 90), 2, P), P, A), P + 3, A), P + 6, P))

\* <<P, A>>: the program at 9 that copies its own first byte, programs with
\* the largest pointers whose top bit is clear, and programs with a pointer
\* whose top bit is set
SelfLoops == {<<9, 9>>, <<16, 64>>, <<8388592, 8388607>>, <<16, 8388608>>, <<8388608, 64>>}

InitLoop == \E pa \in SelfLoops : Booted(setMemory(NewMemory, SelfLoop(pa[1], pa[2])).mem)

SpecLoop == InitLoop /\ [][NextCpu]_vars

-----------------------------------------------------------------------------
(* Claims about the memory accessors, under SpecApi *)

\* the bytes at a, a+1, a+2 read as an unsigned big-endian number
U24(m, a) == Byte(m, a) * 65536 + Byte(m, a + 1) * 256 + Byte(m, a + 2)

\* C1: for every addr in [0, 0xFFFFFF] readUint24(addr) returns without
\* error mem[addr]*65536 + mem[addr+1]*256 + mem[addr+2], a value in
\* [0, 0xFFFFFF], whatever the byte at addr+3 is.
C1_ReadUint24IsUnsigned ==
    (call.op = "readUint24" /\ call.a \in 0..AddrMax) =>
        /\ call.err = NoError
        /\ call.val = U24(call.old, call.a)
        /\ call.val \in 0..AddrMax

\* C2: for src, dest <= 0xFFFFFF, after writeByte(src, dest) the byte at
\* the 24-bit address stored at dest is the byte that was at the 24-bit
\* address stored at src, and every other byte is unchanged.
C2_WriteByteCopies ==
    (call.op = "writeByte" /\ call.a \in 0..AddrMax /\ call.b \in 0..AddrMax) =>
        LET from == U24(call.old, call.a)
            to == U24(call.old, call.b)
        IN  /\ Byte(mem, to) = Byte(call.old, from)
            /\ \A x \in (DOMAIN mem.bytes \cup DOMAIN call.old.bytes) \ {to} :
                   Byte(mem, x) = Byte(call.old, x)

\* C3: writeByte(src, dest) fails if and only if src or dest exceeds
\* 0xFFFFFF.
C3_WriteByteFailsOnlyOutOfRange ==
    call.op = "writeByte" =>
        (call.err # NoError <=> (call.a > AddrMax \/ call.b > AddrMax))

-----------------------------------------------------------------------------
(* Claims about cpuLoop, under SpecCpu *)

\* C4: an invocation of cpuLoop that raises no error returns after exactly
\* 65536 iterations; it starts with pc = readUint24(2) of the memory as it
\* is then, whatever pc the previous invocation ended with; each iteration
\* first copies with writeByte(pc, pc + 3) and then sets pc to
\* readUint24(pc + 6) of the memory the copy has left.
C4_CpuLoopRuns65536Iterations ==
    /\ []((call.op = "cpuLoop" /\ at = "idle" /\ thrown = NoError) => i = 65536)
    /\ [][(at = "cpuLoop" /\ at' = "for") =>
            (i' = 0 /\ pc' = U24(mem, 2) - (IF Byte(mem, 2) >= 128 THEN 16777216 ELSE 0))]_vars
    /\ [][(at = "for" /\ at' = "for") =>
            /\ i' = i + 1
            /\ mem' = writeByte(mem, pc, pc + 3).mem
            /\ pc' = readUint24(mem', pc + 6).val]_vars
    /\ [][(at = "for" /\ at' = "idle") =>
            (thrown' # NoError \/ i = 65536)]_vars

\* the second burst of ProgJump has returned: it started at 0x20, the start
\* address the first burst wrote to memory, not at 0x30 where that one ended
C4_Witness ==
    /\ call.op = "cpuLoop"
    /\ call.n = 2
    /\ at = "idle"
    /\ thrown = NoError
    /\ i = 65536
    /\ U24(call.old, 2) = 32
    /\ Byte(mem, 24) = 48
    /\ pc = 0

-----------------------------------------------------------------------------
(* Claims about the scheduler and the frame, under Spec *)

\* a step that is the entry of a loop callback
LoopCalled == at = "idle" /\ batch' = batch - 1

\* C5: a callback with delta = time - lastFrameTime >= frameDuration sets
\* lastFrameTime to time - (delta mod frameDuration) and executes exactly
\* one frame: one keyboard write, one cpuLoop burst, one video decode; no
\* callback executes more than one burst.
C5_DueCallbackRunsOneFrame ==
    /\ [][(LoopCalled /\ now - lastFrameTime >= 1000) =>
            lastFrameTime' = now - ((now - lastFrameTime) % 1000)]_vars
    /\ [](did.cpuLoop <= 1)
    /\ []((at = "idle" /\ did.due) =>
            (did.writeUint16 = 1 /\ did.cpuLoop = 1 /\ did.updateBuffer = 1))


\* C6: a callback with time - lastFrameTime < frameDuration is a no-op:
\* memory (the keyboard word at 0 included), lastFrameTime and the screen
\* buffer are unchanged and no burst runs.
C6_EarlyCallbackIsNoOp ==
    [][(LoopCalled /\ now - lastFrameTime < 1000) =>
         /\ mem' = mem
         /\ lastFrameTime' = lastFrameTime
         /\ buffer' = buffer
         /\ at' = "idle"
         /\ did'.cpuLoop = 0]_vars

\* the 8 ms callback has returned while f is held: nothing was written
C6_Witness ==
    /\ at = "idle"
    /\ now = Ms(8)
    /\ batch = 0
    /\ rafQueue = 1
    /\ keyState = 32768
    /\ Byte(mem, 0) = 0
    /\ lastFrameTime = 0
    /\ ~did.due

\* C8: within a frame the keyboard word is written first, then the burst
\* runs all its iterations, and only then the decoder reads memory; no key
\* event, image load, click or other callback happens in between, and at
\* most one burst is in flight.
C8_FrameIsSequential ==
    /\ [](at \in {"cpuLoop", "for", "updateBuffer"} => did.writeUint16 = 1)
    /\ [](at = "updateBuffer" => (i = 65536 /\ did.cpuLoop = 1 /\ did.updateBuffer = 0))
    /\ [](did.cpuLoop <= 1)
    /\ [][at # "idle" =>
            /\ keyState' = keyState
            /\ demo' = demo
            /\ running' = running
            /\ batch' = batch
            /\ now' = now]_vars
    /\ [][at = "writeUint16" => at' \in {"cpuLoop", "idle"}]_vars
    /\ [][at = "cpuLoop" => at' \in {"for", "idle"}]_vars
    /\ [][at = "for" => at' \in {"for", "updateBuffer", "idle"}]_vars
    /\ [][at = "for" => buffer' = buffer]_vars
    /\ [][at = "updateBuffer" => (at' = "idle" /\ mem' = mem)]_vars

\* the decoder is about to read the memory a complete burst has left
C8_Witness ==
    /\ at = "updateBuffer"
    /\ i = 65536
    /\ thrown = NoError
    /\ did = [due |-> TRUE, writeUint16 |-> 1, cpuLoop |-> 1, updateBuffer |-> 0]

\* C9: once a burst has raised an error, no later callback starts another
\* frame (keyboard write and burst) until a start or a load is requested.
C9_NoFrameAfterError ==
    [][(thrown # NoError /\ at = "idle") => at' # "writeUint16"]_vars

-----------------------------------------------------------------------------
(* Claims about the scheduler's arithmetic, under SpecTicks *)

TickTimesAre(ts) == [k \in DOMAIN ticks |-> ticks[k][1]] = [k \in DOMAIN ts |-> Ms(ts[k])]
FramesDue == [k \in DOMAIN ticks |-> ticks[k][2]]

\* C7 as stated: with callbacks at 0, 8, 16, 24, 33 ms from lastFrameTime
\* = 0, a frame runs at the 16 ms and at the 33 ms callback and at no other,
\* and lastFrameTime is not 33 ms afterwards.
C7_FramesAt16And33 ==
    (TickTimesAre(<<0, 8, 16, 24, 33>>) /\ at = "idle") =>
        /\ FramesDue = <<FALSE, FALSE, TRUE, FALSE, TRUE>>
        /\ lastFrameTime # Ms(33)

\* C7 amended: with callbacks at 0, 8, 16, 24, 33 ms from lastFrameTime = 0,
\* exactly one frame runs, at the 24 ms callback, which sets lastFrameTime
\* to one frame duration (1000/60 ms); the callbacks at 0, 8, 16 and 33 ms
\* run none, and lastFrameTime is still one frame duration, not 33 ms,
\* after the last.
C7_OneFrameAt24 ==
    /\ TickTimesAre(<<0, 8, 16>>) => (lastFrameTime = 0 /\ at = "idle")
    /\ TickTimesAre(<<0, 8, 16, 24>>) => lastFrameTime = 1000
    /\ (TickTimesAre(<<0, 8, 16, 24>>) /\ at = "idle") =>
           did = [due |-> TRUE, writeUint16 |-> 1, cpuLoop |-> 1, updateBuffer |-> 1]
    /\ TickTimesAre(<<0, 8, 16, 24, 33>>) =>
           /\ FramesDue = <<FALSE, FALSE, FALSE, TRUE, FALSE>>
           /\ at = "idle"
           /\ lastFrameTime = 1000
           /\ lastFrameTime # Ms(33)

\* the five callbacks have run, and the frame of the fourth was drawn
C7_Witness ==
    /\ TickTimesAre(<<0, 8, 16, 24, 33>>)
    /\ at = "idle"
    /\ buffer.fill = <<0, 0, 0, 255>>
    /\ lastFrameTime * 3 = Ms(50)

-----------------------------------------------------------------------------
(* Claims about setMemory, under SpecApi *)

\* C10: setMemory with an image of at most 0x1000008 bytes succeeds and
\* leaves a memory of 0x1000008 bytes, the image followed by zeros; with a
\* longer image it fails with the image-too-large error and leaves the
\* memory as it was.  The memory size is always 0x1000008.
C10_SetMemory ==
    /\ mem.byteLength = 16777224
    /\ call.op = "setMemory" =>
        IF call.image.byteLength <= 16777224
        THEN /\ call.err = NoError
             /\ \A a \in DOMAIN mem.bytes \cup DOMAIN call.image.bytes :
                    Byte(mem, a) = IF a < call.image.byteLength
                                   THEN Byte(call.image, a) ELSE 0
        ELSE /\ call.err = TooLarge
             /\ mem = call.old

\* an image of exactly 0x1000008 bytes has replaced a memory that held
\* other bytes
C10_Witness ==
    /\ call.op = "setMemory"
    /\ call.err = NoError
    /\ call.image.byteLength = 16777224
    /\ Byte(mem, 16777223) = 171
    /\ Byte(call.old, 16777218) = 238
    /\ Byte(mem, 16777218) = 0

-----------------------------------------------------------------------------
(* Claims about the screen, under SpecScreen *)

\* the colour the 6x6x6 cube gives index k < 216, opaque black above
WebSafe(k) ==
    IF k < 216
    THEN <<51 * (k \div 36), 51 * ((k \div 6) % 6), 51 * (k % 6), 255>>
    ELSE <<0, 0, 0, 255>>

\* C11: the palette initPalette has left, which the decoder uses, holds at
\* entry 36*ri + 6*gi + bi the colour (0x33*ri, 0x33*gi, 0x33*bi, 0xFF) for
\* all ri, gi, bi in 0..5, and opaque black (0, 0, 0, 0xFF) at every entry
\* 216..255, even or odd.
C11_PaletteIsWebSafeThenBlack ==
    call.op = "updateBuffer" =>
        /\ \A ri \in 0..5, gi \in 0..5, bi \in 0..5 :
               palette(36 * ri + 6 * gi + bi) = <<51 * ri, 51 * gi, 51 * bi, 255>>
        /\ \A k \in 216..255 : palette(k) = <<0, 0, 0, 255>>

\* the framebuffer the decoder was given: 65536 bytes from mem[5] << 16
FramebufferByte(m, p) == Byte(m, Byte(m, 5) * 65536 + p)

\* C12: after the decoder has run, pixel p of the screen buffer is the
\* colour that the palette (the 6x6x6 cube, opaque black from 216 on) gives
\* mem[(mem[5] << 16) + p], for every p in 0..65535 and every mem[5]; a
\* framebuffer filled with one index of 216..255 decodes to an image that is
\* opaque black everywhere.
C12_DecodeMapsThroughPalette ==
    call.op = "updateBuffer" =>
        /\ \A p \in 0..65535 : Pixel(buffer, p) = WebSafe(FramebufferByte(mem, p))
        /\ (\E k \in 216..255 : \A p \in 0..65535 : FramebufferByte(mem, p) = k) =>
               \A p \in 0..65535 : Pixel(buffer, p) = <<0, 0, 0, 255>>

-----------------------------------------------------------------------------
(* Claims about the keyboard, under SpecKeys *)

\* bit b of n
Bit(n, b) == (n \div (2 ^ b)) % 2

\* C13: after any sequence of key events keyState is in [0, 0xFFFF] and has
\* exactly the bits of the mapped keys whose latest event is a keydown
\* (events of unmapped keys change nothing); at the start of every burst
\* the bytes at addresses 0 and 1 are keyState, big-endian, as it is then.
C13_KeyStateIsHeldKeys ==
    /\ keyState \in 0..65535
    /\ \A b \in 0..15 :
           Bit(keyState, b) = 1 <=>
               \E key \in held \cap DOMAIN keymap : keymap[key] = 2 ^ b
    /\ at = "cpuLoop" =>
           (Byte(mem, 0) = keyState \div 256 /\ Byte(mem, 1) = keyState % 256)

\* a burst starts while 1, a and the unmapped 0 are held: the word at 0 is
\* 0x0402
C13_Witness ==
    /\ at = "cpuLoop"
    /\ held = {"0", "1", "a"}
    /\ keyState = 1026
    /\ Byte(mem, 0) = 4
    /\ Byte(mem, 1) = 2

\* C14: the keyboard has 16 keys, one per bit of the keyboard word: for
\* each bit 0..15 there is a key whose keydown sets that bit, whatever keys
\* are held, so that every value of the word is reachable.
C14_EveryBitHasAKey ==
    \A b \in 0..15 : \E key \in DOMAIN keymap : Bit(keydown(keyState, key), b) = 1

-----------------------------------------------------------------------------
(* Claims about starting and stopping, under Spec *)

\* C15: a callback that fires while running is false requests no further
\* callback and one that fires while running is true requests exactly one;
\* while running stays false the number of pending callbacks never grows,
\* so it falls to zero and stays there; a stop never comes in the middle of
\* a frame, and a frame that has started always completes its burst and its
\* decode.
C15_RunningGatesRescheduling ==
    /\ [][LoopCalled => rafQueue' = rafQueue + (IF running THEN 1 ELSE 0)]_vars
    /\ [][(~running /\ ~running') => rafQueue' + batch' <= rafQueue + batch]_vars
    /\ [][(~running /\ ~running' /\ LoopCalled) =>
            rafQueue' + batch' < rafQueue + batch]_vars
    /\ [][at # "idle" => running' = running]_vars
    /\ [][(at # "idle" /\ at' = "idle") =>
            (did'.cpuLoop = 1 /\ i' = 65536 /\ did'.updateBuffer = 1)]_vars

\* C20: a frame (keyboard write, burst, decode) is executed only while
\* running is true: a callback that fires while running is false starts no
\* frame and changes no memory.
C20_NoFrameWhileStopped ==
    /\ [][(LoopCalled /\ ~running) => (at' = "idle" /\ mem' = mem)]_vars
    /\ [](at # "idle" => running)

-----------------------------------------------------------------------------
(* Claims about audio, under SpecTicks *)

\* the byte v as a signed 8-bit sample
Int8(v) == IF v >= 128 THEN v - 256 ELSE v

\* C16: every executed frame, after its burst and its video decode, exposes
\* the 256 signed 8-bit samples that start at the address readUint24(6),
\* each as sample / 128 (here in 1/128ths: -128 for -1, 127 for 127/128).
C16_FrameDecodesAudio ==
    (at = "idle" /\ did.updateBuffer = 1) =>
        /\ Len(audioSamples(mem)) = 256
        /\ \A k \in 1..256 :
               audioSamples(mem)[k] = Int8(Byte(mem, U24(mem, 6) + k - 1))

-----------------------------------------------------------------------------
(* Claims about readByte, readUint24 and writeUint16, under SpecWord *)

\* C17: readByte(addr), readUint24(addr) and writeUint16(addr, v) fail with
\* the out-of-bounds error for every addr > 0xFFFFFF, without clamping or
\* wrapping the address, and leave memory unchanged then; for every addr in
\* [0, 0xFFFFFF] they succeed, writeUint16 at 0xFFFFFF included, which
\* writes byte 0x1000000 of the padded buffer.
C17_BoundsOfReadsAndWriteUint16 ==
    call.op \in {"readByte", "readUint24", "writeUint16"} =>
        /\ call.a > 16777215 => (call.err = OutOfBounds /\ mem = call.old)
        /\ call.a \in 0..16777215 => call.err = NoError
        /\ call.op # "writeUint16" => mem = call.old
        /\ (call.op = "readByte" /\ call.err = NoError) => call.val = Byte(call.old, call.a)

\* writeUint16(0xFFFFFF, 0xABCD) has succeeded: 0xCD is at 0x1000000
C17_Witness ==
    /\ call.op = "writeUint16"
    /\ call.a = 16777215
    /\ call.b = 43981
    /\ call.err = NoError
    /\ Byte(mem, 16777215) = 171
    /\ Byte(mem, 16777216) = 205
    /\ Byte(call.old, 16777215) = 60

\* C18: for addr in [0, 0xFFFFFF] and v in [0, 0xFFFF], after
\* writeUint16(addr, v) readByte(addr) is v div 256 and, when addr + 1 <=
\* 0xFFFFFF, readByte(addr + 1) is v mod 256, and no byte other than those
\* at addr and addr + 1 has changed.
C18_WriteUint16ThenReadByte ==
    (call.op = "writeUint16" /\ call.a \in 0..16777215 /\ call.b \in 0..65535) =>
        /\ readByte(mem, call.a) = Value(call.b \div 256)
        /\ call.a + 1 <= 16777215 => readByte(mem, call.a + 1) = Value(call.b % 256)
        /\ \A x \in (DOMAIN mem.bytes \cup DOMAIN call.old.bytes) \ {call.a, call.a + 1} :
               Byte(mem, x) = Byte(call.old, x)

\* writeUint16(0xFFFFFE, 0x0100) over the bytes 5A 3C: they are 01 00 now,
\* and the bytes behind them are as before
C18_Witness ==
    /\ call.op = "writeUint16"
    /\ call.a = 16777214
    /\ call.b = 256
    /\ Byte(call.old, 16777214) = 90
    /\ Byte(call.old, 16777215) = 60
    /\ Byte(mem, 16777214) = 1
    /\ Byte(mem, 16777215) = 0
    /\ Byte(mem, 16777217) = 6

-----------------------------------------------------------------------------
(* Claims about self-loop programs, under SpecLoop *)

\* C19: on a self-loop program (start pc P at 2; at P source pointer A,
\* destination pointer A, jump target P) a burst raises no error, has pc = P
\* at every iteration, completes all 65536 iterations and leaves memory
\* byte for byte as it was before; so do further bursts.
C19_SelfLoopIsIdempotent ==
    /\ thrown = NoError
    /\ at = "for" => (pc = U24(call.old, 2) /\ mem = call.old)
    /\ (call.op = "cpuLoop" /\ at = "idle") => (i = 65536 /\ mem = call.old)

-----------------------------------------------------------------------------
(* Claims about clicks, the load and the callbacks together, under Spec *)

\* C21: under every interleaving of clicks, the load completing and
\* callbacks firing, at most one loop callback is pending at any time.
C21_OneCallbackPending == rafQueue + batch <= 1

\* C22: no frame (and so no burst) runs before loadDemo has installed the
\* image with setMemory, and none runs on a memory whose load failed.
C22_NoFrameBeforeLoad == at # "idle" => demo = "loaded"

-----------------------------------------------------------------------------
(* Claims about the frame pacing, under SpecRate *)

FramesExecuted == Cardinality({k \in DOMAIN ticks : ticks[k][2]})

\* C23: with callbacks at non-decreasing timestamps >= 0 and lastFrameTime
\* = 0 at the start, lastFrameTime is always a whole multiple of
\* frameDuration and never exceeds the latest timestamp; right after an
\* executed frame, time - lastFrameTime < frameDuration; each executed
\* frame raises lastFrameTime by at least frameDuration; and the number of
\* frames executed up to timestamp T never exceeds T / frameDuration.
C23_AtMostOneFramePerFrameDuration ==
    /\ [](/\ lastFrameTime % frameDuration = 0
          /\ now >= 0 => lastFrameTime <= now
          /\ at # "idle" => now - lastFrameTime < frameDuration
          /\ now >= 0 => FramesExecuted * frameDuration <= now
          /\ now < 0 => FramesExecuted = 0)
    /\ [][(LoopCalled /\ did'.due) =>
              /\ now - lastFrameTime' < frameDuration
              /\ lastFrameTime' >= lastFrameTime + frameDuration]_vars

\* two frames have run within 34 ms, the second less than a frame duration
\* after the callback of the first, and the callback that came with it in
\* the same animation frame has run no frame
C23_Witness ==
    /\ TickTimesAre(<<24, 24, 34, 34>>)
    /\ FramesDue = <<TRUE, FALSE, TRUE, FALSE>>
    /\ FramesExecuted = 2
    /\ lastFrameTime = 2 * frameDuration
    /\ at = "idle"

-----------------------------------------------------------------------------
(* Claims about the loop running for ever, under SpecLive *)

\* C24: if a callback is pending, running stays true, every pending
\* callback eventually fires, timestamps grow without bound and no burst
\* raises an error, then a callback stays pending for ever and frames are
\* executed infinitely often.
C24_FramesForEver ==
    /\ [](running /\ thrown = NoError)
    /\ [](rafQueue + batch >= 1)
    /\ []<>(did.due /\ at = "updateBuffer")

\* a frame is decoded in the animation frame that follows a callback which
\* came too early and ran none, with the next callback already requested
C24_Witness ==
    /\ at = "updateBuffer"
    /\ did = [due |-> TRUE, writeUint16 |-> 1, cpuLoop |-> 1, updateBuffer |-> 0]
    /\ now = frameDuration
    /\ lastFrameTime = frameDuration
    /\ running
    /\ rafQueue = 1
    /\ batch = 0

====
